---- MODULE Spec2Model ----
(***************************************************************************)
(* ADIME note processor: the text extractor (services/parse_adime.py) and  *)
(* the single-image call (services/image_gen.py).                          *)
(*                                                                         *)
(* Text is a sequence of characters.  The four section keywords are one    *)
(* character each ("A" = ASSESSMENT, "D" = DIAGNOSIS, "I" = INTERVENTION,  *)
(* "M" = MONITORING, lower case "a" "d" "i" "m" for any other casing); no  *)
(* keyword overlaps another, so the regular expressions of the source see  *)
(* them as units.  "u2022" is the bullet character U+2022.                 *)
(***************************************************************************)
EXTENDS Integers, Sequences, FiniteSets, TLC

VARIABLES
    apiKey,             \* OPENAI_API_KEY of the environment: "None", "" or a key
    pc,                 \* where the call of parse_adime_text is
    content,            \* its argument, the raw note
    response,           \* what the remote extraction request came back with
    requests,           \* remote extraction requests this call has issued
    json_str,           \* the text handed to json.loads, if any
    result,             \* the value parse_adime_text returned
    raised,             \* the exception it raised to its caller, or "none"
    imgPc,              \* where the call of generate_image_for_action is
    action_item,        \* its argument
    filename,           \* the uuid4 name it drew
    imgResponse,        \* what the image request came back with
    imgRequests,        \* image-generation requests this call has issued
    downloads,          \* image downloads (GET of a returned url) it has issued
    imgResult,          \* the value it returned
    itemsPc,            \* where the call of extract_action_items is
    itemsArg,           \* its argument
    itemsResult,        \* the list it returned
    pdf,                \* the calls of create_pdf / generate_pdf, one record each
    written,            \* the files generate_pdf has written: path and writer
    disk,               \* the regular files under the working directory
    devMode,            \* DEV_MODE of the environment
    gen,                \* the call of generate_images
    up                  \* the call of upload_adime

parseVars == <<pc, content, response, requests, json_str, result, raised>>
imageVars == <<imgPc, action_item, filename, imgResponse, imgRequests, downloads, imgResult>>
itemsVars == <<itemsPc, itemsArg, itemsResult>>
pdfVars == <<pdf, written, disk>>
batchVars == <<devMode, gen>>
uploadVars == <<up>>
vars == <<apiKey, parseVars, imageVars, itemsVars, pdfVars, batchVars, uploadVars>>

(***************************************************************************)
(* Bounds of the model.                                                    *)
(***************************************************************************)
MaxNote == 5
MaxRemoteNote == 2
MaxContent == 3
MaxText == 4
MaxHtml == 3
MaxItems == 4

(***************************************************************************)
(* Python values: None, str, list, dict.                                   *)
(***************************************************************************)
PyNone == [j |-> "null"]
PyStr(s) == [j |-> "str", s |-> s]
PyList(l) == [j |-> "list", l |-> l]
PyDict(m) == [j |-> "obj", m |-> m]

(***************************************************************************)
(* Characters and the str methods the extractor uses.                      *)
(***************************************************************************)
Keywords == {"A", "D", "I", "M"}

Upper(c) ==
    CASE c = "a" -> "A"
      [] c = "d" -> "D"
      [] c = "i" -> "I"
      [] c = "m" -> "M"
      [] OTHER -> c

IsSpace(c) == c \in {" ", "\n"}

IsDigit(c) == c \in {"0", "1", "2", "3", "4", "5", "6", "7", "8", "9"}

Flatten(ss) ==
    LET F[k \in 0..Len(ss)] == IF k = 0 THEN <<>> ELSE F[k - 1] \o ss[k]
    IN F[Len(ss)]

\* s[:n]
Take(s, n) == SubSeq(s, 1, IF Len(s) < n THEN Len(s) ELSE n)

\* The least element of a non-empty set of integers.
Least(S) == CHOOSE x \in S : \A y \in S : x <= y

\* str.strip()
Strip(s) ==
    LET keep == {k \in 1..Len(s) : ~IsSpace(s[k])}
    IN IF keep = {} THEN <<>>
       ELSE SubSeq(s, Least(keep), CHOOSE x \in keep : \A y \in keep : y <= x)

\* str.split(): the maximal runs of non-whitespace characters, in order.
RECURSIVE SplitFrom(_, _, _)
SplitFrom(s, p, words) ==
    IF p > Len(s) THEN words
    ELSE IF IsSpace(s[p]) THEN SplitFrom(s, p + 1, words)
    ELSE IF p > 1 /\ ~IsSpace(s[p - 1])
         THEN SplitFrom(s, p + 1, [words EXCEPT ![Len(words)] = @ \o <<s[p]>>])
         ELSE SplitFrom(s, p + 1, Append(words, <<s[p]>>))

Split(s) == SplitFrom(s, 1, <<>>)

\* " ".join(words)
Join(words) ==
    LET J[k \in 0..Len(words)] ==
            IF k = 0 THEN <<>>
            ELSE IF k = 1 THEN words[1]
            ELSE J[k - 1] \o <<" ">> \o words[k]
    IN J[Len(words)]

\* str.split("\n\n"): cut at each blank line, left to right, without overlap.
RECURSIVE SplitParagraphs(_)
SplitParagraphs(s) ==
    LET cuts == {k \in 1..(Len(s) - 1) : s[k] = "\n" /\ s[k + 1] = "\n"}
    IN IF cuts = {} THEN <<s>>
       ELSE LET k == Least(cuts)
            IN <<SubSeq(s, 1, k - 1)>> \o SplitParagraphs(SubSeq(s, k + 2, Len(s)))

(***************************************************************************)
(* Rule-based section splitting, parse_adime_text lines 23-55.             *)
(***************************************************************************)
\* A variant in which a section also ends at its own keyword.
OtherKeywordsAll(kw) == Keywords

\* The keywords that end the lazy group of the section's pattern: the other
\* three, never the section's own.
OtherKeywords(kw) == Keywords \ {kw}

\* "$" without re.MULTILINE: the end of the text, or just before a final newline.
AtDollar(s, p) == p = Len(s) + 1 \/ (p = Len(s) /\ s[p] = "\n")

\* "KEYWORD" in content.upper()
HasKeyword(s, kw) == \E k \in 1..Len(s) : Upper(s[k]) = kw

\* re.search(r"(?i)KEYWORD[:\s]+(.*?)(?:OTHER|OTHER|OTHER|$)", content, re.DOTALL):
\* group(1) of the leftmost match, or "none".
RECURSIVE SkipDelims(_, _)
SkipDelims(s, p) ==
    IF p <= Len(s) /\ (s[p] = ":" \/ IsSpace(s[p])) THEN SkipDelims(s, p + 1) ELSE p

RECURSIVE LazyEnd(_, _, _)
LazyEnd(s, p, stop) ==
    IF AtDollar(s, p) \/ Upper(s[p]) \in stop THEN p ELSE LazyEnd(s, p + 1, stop)

RECURSIVE SearchFrom(_, _, _)
SearchFrom(s, kw, p) ==
    IF p > Len(s) THEN [found |-> FALSE, group |-> <<>>]
    ELSE IF Upper(s[p]) = kw /\ SkipDelims(s, p + 1) > p + 1
         THEN LET g == SkipDelims(s, p + 1)
              IN [found |-> TRUE,
                  group |-> SubSeq(s, g, LazyEnd(s, g, OtherKeywords(kw)) - 1)]
         ELSE SearchFrom(s, kw, p + 1)

SectionText(s, kw) ==
    IF HasKeyword(s, kw)
    THEN LET m == SearchFrom(s, kw, 1)
         IN IF m.found THEN Strip(m.group) ELSE <<>>
    ELSE <<>>

(***************************************************************************)
(* extract_action_items, lines 169-212.                                    *)
(***************************************************************************)
PromptPrefix == 100
MinParagraph == 20
TitleWords == 4

InstructionPhrase ==
    <<"Create a simple, clear infographic for a personal nutritional goal with first-person perspective (I should, I will): ">>

\* (?:\d+\.|u2022|\*) at position p: the position after the marker, or 0.
RECURSIVE DigitsEnd(_, _)
DigitsEnd(s, p) == IF p <= Len(s) /\ IsDigit(s[p]) THEN DigitsEnd(s, p + 1) ELSE p

MarkerEnd(s, p) ==
    IF p > Len(s) THEN 0
    ELSE IF s[p] \in {"u2022", "*"} THEN p + 1
    ELSE IF IsDigit(s[p])
         THEN LET q == DigitsEnd(s, p)
              IN IF q <= Len(s) /\ s[q] = "." THEN q + 1 ELSE 0
         ELSE 0

RECURSIVE SkipSpace(_, _)
SkipSpace(s, p) == IF p <= Len(s) /\ IsSpace(s[p]) THEN SkipSpace(s, p + 1) ELSE p

\* (.*?)(?=(?:\d+\.|u2022|\*)|$): where the lazy group that starts at p ends.
RECURSIVE PointEnd(_, _)
PointEnd(s, p) ==
    IF AtDollar(s, p) \/ MarkerEnd(s, p) # 0 THEN p ELSE PointEnd(s, p + 1)

\* re.findall(...): the groups of the successive matches, scanning from p.
RECURSIVE FindBulletPoints(_, _)
FindBulletPoints(s, p) ==
    IF p > Len(s) THEN <<>>
    ELSE IF MarkerEnd(s, p) = 0 THEN FindBulletPoints(s, p + 1)
    ELSE LET g == SkipSpace(s, MarkerEnd(s, p))
             e == PointEnd(s, g)
         IN <<SubSeq(s, g, e - 1)>> \o FindBulletPoints(s, e)

\* A variant that keeps three words of the title.
TitleOfThree(words) ==
    Join(SubSeq(words, 1, IF Len(words) < 3 THEN Len(words) ELSE 3))
        \o (IF Len(words) > 3 THEN <<".", ".", ".">> ELSE <<>>)

\* " ".join(words[:4]) + ("..." if len(words) > 4 else "")
TitleOf(words) ==
    Join(Take(words, TitleWords))
        \o (IF Len(words) > TitleWords THEN <<".", ".", ".">> ELSE <<>>)

BulletItem(point) ==
    PyDict([k \in {"title", "description", "visualization_prompt"} |->
              CASE k = "title" -> PyStr(TitleOf(Split(point)))
                [] k = "description" -> PyStr(point)
                [] OTHER -> PyStr(InstructionPhrase \o point)])

ParagraphItem(para) ==
    PyDict([k \in {"title", "description", "visualization_prompt"} |->
              CASE k = "title" -> PyStr(TitleOf(Split(para)))
                [] k = "description" -> PyStr(para)
                [] OTHER -> PyStr(InstructionPhrase \o Take(para, PromptPrefix))])

\* The loop of lines 184-195 over the findall groups.
BulletItems(points) ==
    LET B[k \in 0..Len(points)] ==
            IF k = 0 THEN <<>>
            ELSE IF Strip(points[k]) # <<>>
                 THEN Append(B[k - 1], BulletItem(Strip(points[k])))
                 ELSE B[k - 1]
    IN B[Len(points)]

\* The loop of lines 199-210 over the paragraphs.
ParagraphItems(paragraphs) ==
    LET P[k \in 0..Len(paragraphs)] ==
            IF k = 0 THEN <<>>
            ELSE IF Strip(paragraphs[k]) # <<>> /\ Len(Strip(paragraphs[k])) > MinParagraph
                 THEN Append(P[k - 1], ParagraphItem(Strip(paragraphs[k])))
                 ELSE P[k - 1]
    IN P[Len(paragraphs)]

extract_action_items(intervention_text) ==
    LET action_items == BulletItems(FindBulletPoints(intervention_text, 1))
    IN IF action_items = <<>> /\ intervention_text # <<>>
       THEN ParagraphItems(SplitParagraphs(intervention_text))
       ELSE action_items

\* The dictionary the rule-based path returns, lines 24-30 and 68-72.
RuleBased(s) ==
    PyDict([k \in {"assessment", "diagnosis", "intervention", "monitoring", "action_items"} |->
              CASE k = "assessment" -> PyStr(SectionText(s, "A"))
                [] k = "diagnosis" -> PyStr(SectionText(s, "D"))
                [] k = "intervention" -> PyStr(SectionText(s, "I"))
                [] k = "monitoring" -> PyStr(SectionText(s, "M"))
                [] OTHER -> PyList(extract_action_items(SectionText(s, "I")))])

(***************************************************************************)
(* The text of a remote reply, as json.loads reads it.  A reply is a       *)
(* sequence of tokens: "{" and "}", "[" and "]", "n" (the literal null),   *)
(* "s" (a string literal), a key with its colon ("a:" = "assessment":,     *)
(* "d:", "i:", "m:", "ai:" = "action_items":, "t:" = "title":, "de:" =     *)
(* "description":, "v:" = "visualization_prompt":, and "k:" for any other  *)
(* key), and "x" (prose).  The commas between the members of an object and *)
(* the elements of a list are taken as written correctly.                  *)
(***************************************************************************)
KeyName(tok) ==
    CASE tok = "a:" -> "assessment"
      [] tok = "d:" -> "diagnosis"
      [] tok = "i:" -> "intervention"
      [] tok = "m:" -> "monitoring"
      [] tok = "ai:" -> "action_items"
      [] tok = "t:" -> "title"
      [] tok = "de:" -> "description"
      [] tok = "v:" -> "visualization_prompt"
      [] OTHER -> "other"

KeyTokens == {"a:", "d:", "i:", "m:", "ai:", "t:", "de:", "v:", "k:"}

\* dict[k] = v
Put(m, k, v) == [x \in (DOMAIN m) \cup {k} |-> IF x = k THEN v ELSE m[x]]

NoValue == [ok |-> FALSE, val |-> PyNone, next |-> 0]

RECURSIVE ParseValue(_, _)
RECURSIVE ParseMembers(_, _, _)
RECURSIVE ParseElements(_, _, _)
ParseValue(toks, p) ==
    IF p > Len(toks) THEN NoValue
    ELSE IF toks[p] = "n" THEN [ok |-> TRUE, val |-> PyNone, next |-> p + 1]
    ELSE IF toks[p] = "s" THEN [ok |-> TRUE, val |-> PyStr(<<"s">>), next |-> p + 1]
    ELSE IF toks[p] = "{" THEN ParseMembers(toks, p + 1, [x \in {} |-> PyNone])
    ELSE IF toks[p] = "[" THEN ParseElements(toks, p + 1, <<>>)
    ELSE NoValue

ParseElements(toks, p, l) ==
    IF p > Len(toks) THEN NoValue
    ELSE IF toks[p] = "]" THEN [ok |-> TRUE, val |-> PyList(l), next |-> p + 1]
    ELSE LET v == ParseValue(toks, p)
         IN IF v.ok THEN ParseElements(toks, v.next, Append(l, v.val)) ELSE NoValue

ParseMembers(toks, p, m) ==
    IF p > Len(toks) THEN NoValue
    ELSE IF toks[p] = "}" THEN [ok |-> TRUE, val |-> PyDict(m), next |-> p + 1]
    ELSE IF toks[p] \in KeyTokens
         THEN LET v == ParseValue(toks, p + 1)
              IN IF v.ok THEN ParseMembers(toks, v.next, Put(m, KeyName(toks[p]), v.val))
                 ELSE NoValue
         ELSE NoValue

\* json.loads(s): the value, or ok = FALSE for json.JSONDecodeError.
JsonLoads(toks) ==
    LET v == ParseValue(toks, 1)
    IN IF v.ok /\ v.next = Len(toks) + 1 THEN [ok |-> TRUE, val |-> v.val]
       ELSE [ok |-> FALSE, val |-> PyNone]

(***************************************************************************)
(* parse_with_openai, lines 143-167.                                       *)
(***************************************************************************)
\* re.search(r"({.*})", content, re.DOTALL): from the first "{" to the last "}".
JsonMatch(s) ==
    LET opens == {k \in 1..Len(s) : s[k] = "{"}
        closes == {k \in 1..Len(s) : s[k] = "}"}
    IN IF \E o \in opens, c \in closes : o < c
       THEN [found |-> TRUE,
             group |-> SubSeq(s, Least(opens), CHOOSE c \in closes : \A d \in closes : d <= c)]
       ELSE [found |-> FALSE, group |-> <<>>]

\* The dictionary of lines 162-167.
BasicStructure ==
    PyDict([k \in {"assessment", "diagnosis", "intervention", "monitoring"} |->
      CASE k = "assessment" ->
             PyDict([f \in {"summary"} |-> PyStr(<<"Could not parse assessment">>)])
        [] k = "diagnosis" ->
             PyDict([f \in {"problems", "summary"} |->
                       IF f = "problems" THEN PyList(<<>>)
                       ELSE PyStr(<<"Could not parse diagnosis">>)])
        [] k = "intervention" ->
             PyDict([f \in {"summary", "action_items"} |->
                       IF f = "action_items" THEN PyList(<<>>)
                       ELSE PyStr(<<"Could not parse intervention">>)])
        [] OTHER ->
             PyDict([f \in {"follow_up", "metrics"} |->
                       IF f = "metrics" THEN PyList(<<>>)
                       ELSE PyStr(<<"Could not parse monitoring">>)])])

NotParsed == [set |-> FALSE, s |-> <<>>]
Returns(v, js) == [kind |-> "return", value |-> v, exc |-> "none", json_str |-> js]
Raises(e, js) == [kind |-> "raise", value |-> PyNone, exc |-> e, json_str |-> js]

\* except (json.JSONDecodeError, KeyError), line 159
InnerCatches(exc) == exc \in {"JSONDecodeError", "KeyError"}

\* Lines 148-167: the handling of response_data.
HandleResponseData(resp) ==
    LET attempt ==
          CASE resp.kind = "not_object" -> Raises("TypeError", NotParsed)
            [] resp.kind = "no_choices" -> Raises("KeyError", NotParsed)
            [] resp.kind = "empty_choices" -> Raises("IndexError", NotParsed)
            [] resp.kind = "null_content" -> Raises("TypeError", NotParsed)
            [] OTHER ->
                 LET json_match == JsonMatch(resp.content)
                     js == [set |-> TRUE,
                            s |-> IF json_match.found THEN json_match.group
                                  ELSE resp.content]
                     loaded == JsonLoads(js.s)
                 IN IF loaded.ok THEN Returns(loaded.val, js)
                    ELSE Raises("JSONDecodeError", js)
    IN IF attempt.kind = "raise" /\ InnerCatches(attempt.exc)
       THEN Returns(BasicStructure, attempt.json_str)
       ELSE attempt

parse_with_openai(resp) ==
    CASE resp.kind = "transport_error" -> Raises("TransportError", NotParsed)
      [] resp.kind = "not_json" -> Raises("JSONDecodeError", NotParsed)
      [] OTHER -> HandleResponseData(resp)

(***************************************************************************)
(* parse_adime_text, lines 13-72.                                          *)
(***************************************************************************)
\* A variant of the test of line 58: if OPENAI_API_KEY is not None
IsNotNone(key) == key # "None"

\* if OPENAI_API_KEY:
Truthy(key) == key \notin {"None", ""}

\* A variant of line 63 that catches the transport errors only.
OuterCatchesHttpOnly(exc) == exc = "TransportError"

\* except Exception, line 63: every exception the remote path raises is one.
OuterCatches(exc) ==
    exc \in {"TransportError", "JSONDecodeError", "KeyError", "IndexError", "TypeError"}

ContentPieces ==
    { <<"{">>, <<"}">>, <<"x">>, <<"n">>, <<"k:">>,
      <<"a:", "{", "}", "d:", "{", "}", "i:", "{", "ai:", "[", "{", "de:", "s", "}", "]", "}">>,
      <<"a:", "{", "}", "d:", "{", "}", "i:", "{", "ai:", "n", "}", "m:", "{", "}">> }

Contents == {Flatten(ps) : ps \in UNION {[1..k -> ContentPieces] : k \in 0..MaxContent}}

NoResponse == [kind |-> "none", status |-> 0, content |-> <<>>]

\* What the request of line 144 can come back with.  The status is never read.
Responses ==
    {[kind |-> "transport_error", status |-> 0, content |-> <<>>]}
    \cup {[kind |-> k, status |-> st, content |-> <<>>] :
             k \in {"not_json", "no_choices"}, st \in {200, 401, 500}}
    \cup {[kind |-> k, status |-> 200, content |-> <<>>] :
             k \in {"not_object", "empty_choices", "null_content"}}
    \cup {[kind |-> "content", status |-> 200, content |-> c] : c \in Contents}

\* Lines 23-58 and, without a key, 68-72.
ParseStart ==
    /\ pc = "start"
    /\ IF Truthy(apiKey)
       THEN /\ requests' = requests + 1
            /\ pc' = "awaiting"
            /\ UNCHANGED <<result, raised>>
       ELSE /\ result' = RuleBased(content)
            /\ raised' = "none"
            /\ pc' = "done"
            /\ UNCHANGED requests
    /\ UNCHANGED <<apiKey, content, response, json_str, imageVars, itemsVars,
                   pdfVars, batchVars, uploadVars>>

\* How the call ends once the request has come back, lines 59-72.
Completion(resp) ==
    LET out == parse_with_openai(resp)
    IN IF out.kind = "return"
       THEN [result |-> out.value, raised |-> "none", json_str |-> out.json_str]
       ELSE IF OuterCatches(out.exc)
            THEN [result |-> RuleBased(content), raised |-> "none", json_str |-> out.json_str]
            ELSE [result |-> PyNone, raised |-> out.exc, json_str |-> out.json_str]

\* A variant of ParseRespond that issues a second request after a failed one.
ParseRespondRetry ==
    /\ pc = "awaiting"
    /\ \E resp \in Responses :
         LET c == Completion(resp)
         IN /\ response' = resp
            /\ json_str' = c.json_str
            /\ IF parse_with_openai(resp).kind = "raise" /\ requests < 2
               THEN /\ requests' = requests + 1
                    /\ UNCHANGED <<pc, result, raised>>
               ELSE /\ result' = c.result
                    /\ raised' = c.raised
                    /\ pc' = "done"
                    /\ UNCHANGED requests
    /\ UNCHANGED <<apiKey, content, imageVars, itemsVars,
                   pdfVars, batchVars, uploadVars>>

\* The request of line 144 comes back (or fails) and the call runs to its end.
ParseRespond ==
    /\ pc = "awaiting"
    /\ \E resp \in Responses :
         LET c == Completion(resp)
         IN /\ response' = resp
            /\ json_str' = c.json_str
            /\ result' = c.result
            /\ raised' = c.raised
    /\ pc' = "done"
    /\ UNCHANGED <<apiKey, content, requests, imageVars, itemsVars,
                   pdfVars, batchVars, uploadVars>>

(***************************************************************************)
(* generate_image_for_action, image_gen.py lines 171-291.                  *)
(***************************************************************************)
PlaceholderPath == <<"/static/generated_images/placeholder.png">>

GeneratedPath(name) == <<"/static/generated_images/", name, ".png">>

ImageInfo(item, path) ==
    PyDict([k \in {"title", "description", "image_path"} |->
              IF k = "image_path" THEN PyStr(path) ELSE item.m[k]])

Uuids == {"uuid1", "uuid2"}

ActionItems ==
    { PyDict([k \in {"title", "description"} |-> PyStr(<<t>>)]) : t \in {"walk", "water"} }

NoImageResponse == [kind |-> "none", written |-> FALSE]

\* What the request of line 236 can come back with, and whether the file of
\* line 263 can be written.
ImageResponses ==
    [kind : {"transport_error", "not_json", "no_data", "empty_data", "b64_json",
             "bad_b64", "url", "unexpected"},
     written : BOOLEAN]

\* Lines 183-236.
ImageStart ==
    /\ imgPc = "start"
    /\ IF ~Truthy(apiKey)
       THEN /\ imgResult' = ImageInfo(action_item, PlaceholderPath)
            /\ imgPc' = "done"
            /\ UNCHANGED <<filename, imgRequests>>
       ELSE /\ \E u \in Uuids : filename' = u
            /\ imgRequests' = imgRequests + 1
            /\ imgPc' = "posting"
            /\ UNCHANGED imgResult
    /\ UNCHANGED <<apiKey, action_item, imgResponse, downloads, parseVars, itemsVars,
                   pdfVars, batchVars, uploadVars>>

\* Lines 237-291, up to the download of a returned url.
ImageRespond ==
    /\ imgPc = "posting"
    /\ \E r \in ImageResponses :
         /\ imgResponse' = r
         /\ CASE r.kind = "url" ->
                   /\ downloads' = downloads + 1
                   /\ imgPc' = "downloading"
                   /\ UNCHANGED imgResult
              [] r.kind = "b64_json" /\ r.written ->
                   /\ imgResult' = ImageInfo(action_item, GeneratedPath(filename))
                   /\ imgPc' = "done"
                   /\ UNCHANGED downloads
              [] OTHER ->
                   /\ imgResult' = ImageInfo(action_item, PlaceholderPath)
                   /\ imgPc' = "done"
                   /\ UNCHANGED downloads
    /\ UNCHANGED <<apiKey, action_item, filename, imgRequests, parseVars, itemsVars,
                   pdfVars, batchVars, uploadVars>>

\* Lines 253-276 and 285-291: the download ends, the file is written.
ImageDownloaded ==
    /\ imgPc = "downloading"
    /\ \E fetched \in BOOLEAN :
         imgResult' = ImageInfo(action_item,
                                IF fetched /\ imgResponse.written
                                THEN GeneratedPath(filename) ELSE PlaceholderPath)
    /\ imgPc' = "done"
    /\ UNCHANGED <<apiKey, action_item, filename, imgResponse, imgRequests, downloads,
                   parseVars, itemsVars,
                   pdfVars, batchVars, uploadVars>>

(***************************************************************************)
(* generate_pdf, pdf_gen.py lines 17-292.  HTML is a sequence of tokens:   *)
(* the characters "<", ">", "/", "=", the double quote, " " and "\n" that  *)
(* the regular expressions of the source tell apart, and one token for     *)
(* each word between them ("img", "src", "https:", "a.png", ...).          *)
(***************************************************************************)
Cwd == <<"/", "srv", "/", "app">>

Quote == "\""

\* s[p:p+len(pat)] == pat
HasAt(s, p, pat) ==
    /\ p >= 1
    /\ p + Len(pat) - 1 <= Len(s)
    /\ SubSeq(s, p, p + Len(pat) - 1) = pat

\* The first position at or after p that holds one of toks, or 0.
FirstAt(s, p, toks) ==
    LET at == {k \in p..Len(s) : s[k] \in toks}
    IN IF at = {} THEN 0 ELSE Least(at)

Greatest(S) == CHOOSE x \in S : \A y \in S : y <= x

NoMatch == [found |-> FALSE, group |-> <<>>, end |-> 0]

\* r'<img[^>]*src="([^"]*)"[^>]*>' matched at position i: the greedy [^>]*
\* takes the last src=" of the tag for which the rest matches.
ImgMatchAt(s, i) ==
    LET QuoteAfter(j) == FirstAt(s, j + 3, {Quote})
        J == {j \in (i + 2)..Len(s) :
                /\ HasAt(s, j, <<"src", "=", Quote>>)
                /\ \A k \in (i + 2)..(j - 1) : s[k] # ">"
                /\ QuoteAfter(j) # 0
                /\ FirstAt(s, QuoteAfter(j) + 1, {">"}) # 0}
    IN IF HasAt(s, i, <<"<", "img">>) /\ J # {}
       THEN [found |-> TRUE,
             group |-> SubSeq(s, Greatest(J) + 3, QuoteAfter(Greatest(J)) - 1),
             end |-> FirstAt(s, QuoteAfter(Greatest(J)) + 1, {">"})]
       ELSE NoMatch

\* re.findall(r'<img[^>]*src="([^"]*)"[^>]*>', html_content), lines 32 and 61
RECURSIVE FindImgTags(_, _)
FindImgTags(s, p) ==
    IF p > Len(s) THEN <<>>
    ELSE IF ImgMatchAt(s, p).found
         THEN <<ImgMatchAt(s, p).group>> \o FindImgTags(s, ImgMatchAt(s, p).end + 1)
         ELSE FindImgTags(s, p + 1)

\* str.replace(old, new): every occurrence, left to right, without overlap.
RECURSIVE ReplaceFrom(_, _, _, _, _)
ReplaceFrom(s, old, new, p, out) ==
    IF p > Len(s) THEN out
    ELSE IF HasAt(s, p, old) THEN ReplaceFrom(s, old, new, p + Len(old), out \o new)
    ELSE ReplaceFrom(s, old, new, p + 1, Append(out, s[p]))

Replace(s, old, new) == ReplaceFrom(s, old, new, 1, <<>>)

\* str.startswith(prefix)
StartsWith(s, prefix) == HasAt(s, 1, prefix)

\* os.path.join(a, b): an absolute b discards a.
PathJoin(a, b) ==
    IF StartsWith(b, <<"/">>) THEN b
    ELSE IF a = <<>> \/ a[Len(a)] = "/" THEN a \o b
    ELSE a \o <<"/">> \o b

\* f"file://{abs_path}", lines 43-45
FileUrl(img_src) == <<"file:", "/", "/">> \o PathJoin(Cwd, SubSeq(img_src, 2, Len(img_src)))

\* The loop of lines 40-48 over img_tags.
FixImagePaths(html, img_tags) ==
    LET SrcAttr(value) == <<"src", "=", Quote>> \o value \o <<Quote>>
        F[k \in 0..Len(img_tags)] ==
            IF k = 0 THEN html
            ELSE IF StartsWith(img_tags[k], <<"/">>)
                 THEN Replace(F[k - 1], SrcAttr(img_tags[k]), SrcAttr(FileUrl(img_tags[k])))
                 ELSE F[k - 1]
    IN F[Len(img_tags)]

\* re.sub(pattern, '', s), given for each position where the match that starts
\* there ends (0: no match starts there).
RECURSIVE RemoveFrom(_, _, _, _)
RemoveFrom(s, ends, p, out) ==
    IF p > Len(s) THEN out
    ELSE IF ends[p] # 0 THEN RemoveFrom(s, ends, ends[p] + 1, out)
    ELSE RemoveFrom(s, ends, p + 1, Append(out, s[p]))

RemoveMatches(s, ends) == RemoveFrom(s, ends, 1, <<>>)

NoNewline(s, from, to) == \A k \in from..to : s[k] # "\n"

\* r'<button[^>]*>.*?</button>', line 52: "." does not match a newline.
ButtonEnd(s, i) ==
    LET g == FirstAt(s, i + 2, {">"})
        C == {c \in (g + 1)..Len(s) :
                HasAt(s, c, <<"<", "/", "button", ">">>) /\ NoNewline(s, g + 1, c - 1)}
    IN IF HasAt(s, i, <<"<", "button">>) /\ g # 0 /\ C # {} THEN Least(C) + 3 ELSE 0

\* r'style="[^"]*display:\s*none[^"]*"[^>]*>.*?</[^>]*>' matched at j: the
\* element is taken to end at the first closing tag of any name.
HiddenEndFrom(s, j) ==
    LET q == FirstAt(s, j + 3, {Quote})
        g == FirstAt(s, q + 1, {">"})
        C == {c \in (g + 1)..Len(s) :
                /\ HasAt(s, c, <<"<", "/">>)
                /\ FirstAt(s, c + 2, {">"}) # 0
                /\ NoNewline(s, g + 1, c - 1)}
    IN IF /\ HasAt(s, j, <<"style", "=", Quote>>)
          /\ q # 0
          /\ \E d \in (j + 3)..(q - 1) :
                /\ s[d] = "display:"
                /\ SkipSpace(s, d + 1) < q
                /\ s[SkipSpace(s, d + 1)] = "none"
          /\ g # 0
          /\ C # {}
       THEN FirstAt(s, Least(C) + 2, {">"})
       ELSE 0

\* r'<[^>]*style="[^"]*display:\s*none[^"]*"[^>]*>.*?</[^>]*>', line 55
HiddenEnd(s, i) ==
    LET J == {j \in (i + 1)..Len(s) :
                /\ \A k \in (i + 1)..(j - 1) : s[k] # ">"
                /\ HiddenEndFrom(s, j) # 0}
    IN IF s[i] = "<" /\ J # {} THEN HiddenEndFrom(s, Greatest(J)) ELSE 0

\* r'class="[^"]*editor[^"]*"[^>]*>\s*<p>\s*<br>\s*</p>\s*</div>' matched at j
EditorEndFrom(s, j) ==
    LET q == FirstAt(s, j + 3, {Quote})
        g == FirstAt(s, q + 1, {">"})
        p1 == SkipSpace(s, g + 1)
        p2 == SkipSpace(s, p1 + 3)
        p3 == SkipSpace(s, p2 + 3)
        p4 == SkipSpace(s, p3 + 4)
    IN IF /\ HasAt(s, j, <<"class", "=", Quote>>)
          /\ q # 0
          /\ \E d \in (j + 3)..(q - 1) : s[d] = "editor"
          /\ g # 0
          /\ HasAt(s, p1, <<"<", "p", ">">>)
          /\ HasAt(s, p2, <<"<", "br", ">">>)
          /\ HasAt(s, p3, <<"<", "/", "p", ">">>)
          /\ HasAt(s, p4, <<"<", "/", "div", ">">>)
       THEN p4 + 3
       ELSE 0

\* r'<div[^>]*class="[^"]*editor[^"]*"[^>]*>\s*<p>\s*<br>\s*</p>\s*</div>', line 58
EditorEnd(s, i) ==
    LET J == {j \in (i + 2)..Len(s) :
                /\ \A k \in (i + 2)..(j - 1) : s[k] # ">"
                /\ EditorEndFrom(s, j) # 0}
    IN IF HasAt(s, i, <<"<", "div">>) /\ J # {} THEN EditorEndFrom(s, Greatest(J)) ELSE 0

\* Lines 50-58: the three substitutions, one after the other.
CleanupHtml(html) ==
    LET no_buttons == RemoveMatches(html, [i \in 1..Len(html) |-> ButtonEnd(html, i)])
        no_hidden == RemoveMatches(no_buttons,
                                   [i \in 1..Len(no_buttons) |-> HiddenEnd(no_buttons, i)])
    IN RemoveMatches(no_hidden, [i \in 1..Len(no_hidden) |-> EditorEnd(no_hidden, i)])

\* Lines 31-58: what generate_pdf hands to the renderer for html_content.
PreparedHtml(html) == CleanupHtml(FixImagePaths(html, FindImgTags(html, 1)))

(***************************************************************************)
(* The diagnostics of lines 67-98, outside the try of line 120.  Paths are *)
(* relative to the working directory; "." is the only directory there, and *)
(* disk holds its regular files.                                           *)
(***************************************************************************)
ProbedImages == 5

\* Lines 72-80.
LocalPath(img_src) ==
    LET unqualified == IF StartsWith(img_src, <<"file:", "/", "/">>)
                       THEN SubSeq(img_src, 4, Len(img_src))
                       ELSE img_src
    IN IF StartsWith(unqualified, <<"/">>)
       THEN SubSeq(unqualified, 2, Len(unqualified))
       ELSE unqualified

\* os.path.dirname(local_path) or '.'
DirPath(path) ==
    LET slashes == {k \in 1..Len(path) : path[k] = "/"}
        head == SubSeq(path, 1, Greatest(slashes))
        kept == {k \in 1..Len(head) : head[k] # "/"}
    IN IF slashes = {} THEN <<".">>
       ELSE IF kept = {} THEN head
       ELSE SubSeq(head, 1, Greatest(kept))

\* os.path.exists(path)
PathExists(files, path) == path \in files \/ path = <<".">>

\* os.listdir(dir_path) of lines 92-95 raises NotADirectoryError: the image
\* is missing and what stands where its directory should be is a regular file.
ListdirRaises(files, img_tags) ==
    \E k \in 1..Len(Take(img_tags, ProbedImages)) :
        /\ ~(StartsWith(img_tags[k], <<"http:">>) \/ StartsWith(img_tags[k], <<"https:">>))
        /\ ~PathExists(files, LocalPath(img_tags[k]))
        /\ DirPath(LocalPath(img_tags[k])) \in files

(***************************************************************************)
(* The calls of create_pdf (main.py lines 88-110) and of generate_pdf.     *)
(***************************************************************************)
Renders == {1, 2}

\* uuid.uuid4(): an identifier it has not returned before.  Identifiers are
\* interchangeable, so one unused identifier stands for every one of them.
FreshUuid(used) == CHOOSE u \in Uuids \cup {"uuid3", "uuid4"} : u \notin used

\* os.path.join(PDF_DIR, filename), lines 117-118
PdfPath(u) == <<"static/pdfs", "/", u, ".pdf">>

\* A variant that names the debug file after the directory alone.
DebugPathFixed(u) == <<"static/pdfs", "/", "debug", ".html">>

\* os.path.join(PDF_DIR, f"debug_{uuid.uuid4()}.html"), line 122
DebugPath(u) == <<"static/pdfs", "/", "debug_", u, ".html">>

\* tempfile.NamedTemporaryFile(suffix='.html', delete=False).name, lines 128-130
TempPath(name) == <<"/tmp", "/", name, ".html">>

NoPath == <<>>

NoRender ==
    [pc |-> "idle", html |-> <<>>, img_tags |-> <<>>, fixed_html |-> <<>>, html_content |-> <<>>,
     filename |-> "none", debug |-> "none", temp |-> "none",
     pdf_path |-> NoPath, raised |-> "none", response |-> [kind |-> "none", path |-> NoPath]]

\* The identifiers uuid.uuid4() has returned to the calls of generate_pdf.
DrawnUuids == {pdf[r].filename : r \in Renders} \cup {pdf[r].debug : r \in Renders}

\* Lines 27-118: the image paths are fixed, the HTML cleaned up, the images
\* probed on disk (which can raise) and the name of the PDF drawn.
PdfPrepare(r) ==
    /\ pdf[r].pc = "start"
    /\ LET img_tags == FindImgTags(pdf[r].html, 1)
           prepared == [pdf[r] EXCEPT !.img_tags = img_tags,
                                      !.fixed_html = FixImagePaths(pdf[r].html, img_tags),
                                      !.html_content = PreparedHtml(pdf[r].html)]
       IN IF ListdirRaises(disk, img_tags)
          THEN pdf' = [pdf EXCEPT ![r] = [prepared EXCEPT !.pc = "raised",
                                                         !.raised = "NotADirectoryError"]]
          ELSE pdf' = [pdf EXCEPT ![r] = [prepared EXCEPT !.pc = "named",
                                                         !.filename = FreshUuid(DrawnUuids)]]
    /\ UNCHANGED <<apiKey, parseVars, imageVars, itemsVars, written, disk, batchVars, uploadVars>>

\* Lines 120-125: the debug copy of the HTML is written, or the write fails
\* and line 292 returns "".
PdfWriteDebug(r) ==
    /\ pdf[r].pc = "named"
    /\ \/ /\ pdf' = [pdf EXCEPT ![r].pc = "debug_written", ![r].debug = FreshUuid(DrawnUuids)]
          /\ written' = written \cup {[path |-> DebugPath(FreshUuid(DrawnUuids)), by |-> r]}
       \/ /\ pdf' = [pdf EXCEPT ![r].pc = "returned", ![r].pdf_path = NoPath]
          /\ UNCHANGED written
    /\ UNCHANGED <<apiKey, parseVars, imageVars, itemsVars, disk, batchVars, uploadVars>>

\* Lines 127-132: the temporary file is created under a name no file has.
PdfWriteTemp(r) ==
    /\ pdf[r].pc = "debug_written"
    /\ \/ \E name \in {"tmp1", "tmp2"} \ {pdf[q].temp : q \in Renders} :
            /\ pdf' = [pdf EXCEPT ![r].pc = "temp_written", ![r].temp = name]
            /\ written' = written \cup {[path |-> TempPath(name), by |-> r]}
       \/ /\ pdf' = [pdf EXCEPT ![r].pc = "returned", ![r].pdf_path = NoPath]
          /\ UNCHANGED written
    /\ UNCHANGED <<apiKey, parseVars, imageVars, itemsVars, disk, batchVars, uploadVars>>

\* Lines 134-292: the renderer writes the PDF and its path is returned, or it
\* fails and "" is returned.
PdfRender(r) ==
    /\ pdf[r].pc = "temp_written"
    /\ \/ /\ pdf' = [pdf EXCEPT ![r].pc = "returned",
                                ![r].pdf_path = PdfPath(pdf[r].filename)]
          /\ written' = written \cup {[path |-> PdfPath(pdf[r].filename), by |-> r]}
       \/ /\ pdf' = [pdf EXCEPT ![r].pc = "returned", ![r].pdf_path = NoPath]
          /\ UNCHANGED written
    /\ UNCHANGED <<apiKey, parseVars, imageVars, itemsVars, disk, batchVars, uploadVars>>

\* main.py lines 96-110: what create_pdf answers once generate_pdf is over.
\* It has no handler of its own: what generate_pdf raises goes to its caller.
CreatePdfRespond(r) ==
    /\ pdf[r].pc \in {"returned", "raised"}
    /\ pdf' = [pdf EXCEPT ![r].pc = "responded",
                          ![r].response =
                              IF pdf[r].pc = "raised"
                              THEN [kind |-> "exception", path |-> NoPath]
                              ELSE IF pdf[r].pdf_path = NoPath
                                   THEN [kind |-> "error", path |-> NoPath]
                                   ELSE [kind |-> "file", path |-> pdf[r].pdf_path]]
    /\ UNCHANGED <<apiKey, parseVars, imageVars, itemsVars, written, disk, batchVars, uploadVars>>

(***************************************************************************)
(* generate_images, image_gen.py lines 57-121, with the tasks it gathers   *)
(* and generate_dev_images_for_action_items, lines 123-169.                *)
(***************************************************************************)
ImageLimit == 3

IsDict(v) == v.j = "obj"

\* key in v, for a dict v
HasKey(v, key) == IsDict(v) /\ key \in DOMAIN v.m

\* len(v) raises TypeError for None
IsSized(v) == v.j \in {"str", "list", "obj"}

\* not v, for a sized v
IsEmpty(v) ==
    CASE v.j = "str" -> v.s = <<>>
      [] v.j = "list" -> v.l = <<>>
      [] OTHER -> DOMAIN v.m = {}

\* Lines 71-80: where the action items are taken from.
FoundActionItems(adime_data) ==
    IF HasKey(adime_data, "intervention") /\ HasKey(adime_data.m["intervention"], "action_items")
    THEN adime_data.m["intervention"].m["action_items"]
    ELSE IF HasKey(adime_data, "action_items") THEN adime_data.m["action_items"]
    ELSE PyList(<<>>)

\* action_item["title"] and action_item["description"] can both be read
HasTitleAndDescription(item) == HasKey(item, "title") /\ HasKey(item, "description")

\* Lines 96-103: what building the prompt of one item raises, or "none".
PromptRaises(item) ==
    IF ~IsDict(item) THEN "AttributeError"
    ELSE IF HasKey(item, "visualization_prompt") THEN "none"
    ELSE IF ~HasKey(item, "description") THEN "KeyError"
    ELSE IF item.m["description"].j = "null" THEN "TypeError"
    ELSE "none"

\* Lines 163-167: what reading one item raises in development mode, or "none".
DevItemRaises(item) ==
    IF ~IsDict(item) THEN "TypeError"
    ELSE IF ~HasTitleAndDescription(item) THEN "KeyError"
    ELSE "none"

\* The first exception of a loop, given what each of its rounds raises.
FirstRaise(raises) ==
    LET bad == {k \in 1..Len(raises) : raises[k] # "none"}
    IN IF bad = {} THEN "none" ELSE raises[Least(bad)]

OldImages == {"old1", "old2"}

PendingTask(item) == [pc |-> "pending", item |-> item, filename |-> "none",
                      image_path |-> <<>>, result |-> PyNone]

NoGen == [pc |-> "idle", adime_data |-> PyNone, tasks |-> <<>>, completed |-> <<>>,
          image_info |-> <<>>, raised |-> "none"]

GenReturns(g, image_info) == [g EXCEPT !.pc = "returned", !.image_info = image_info]

GenRaises(g, exc) == [g EXCEPT !.pc = "raised", !.raised = exc]

\* Lines 67-106 and, in development mode, 134-169: generate_images up to the
\* await of line 109, or to its end.
GenStart ==
    /\ gen.pc = "start"
    /\ LET action_items == FoundActionItems(gen.adime_data)
           items == Take(action_items.l, ImageLimit)
       IN IF ~IsDict(gen.adime_data) THEN gen' = GenRaises(gen, "AttributeError")
          ELSE IF ~IsSized(action_items) THEN gen' = GenRaises(gen, "TypeError")
          ELSE IF IsEmpty(action_items) THEN gen' = GenReturns(gen, <<>>)
          ELSE IF action_items.j = "obj"
               \* action_items[:3] of a dict: TypeError (KeyError from Python 3.12 on)
               THEN gen' = GenRaises(gen, "TypeError")
          ELSE IF action_items.j = "str"
               \* the items are characters: item["title"] or item.get
               THEN gen' = GenRaises(gen, IF devMode THEN "TypeError" ELSE "AttributeError")
          ELSE IF devMode
               THEN IF FirstRaise([k \in 1..Len(items) |-> DevItemRaises(items[k])]) # "none"
                    THEN gen' = GenRaises(gen, FirstRaise([k \in 1..Len(items) |-> DevItemRaises(items[k])]))
                    ELSE \E existing \in SUBSET OldImages :
                           \E names \in [1..Len(items) -> existing \cup {"placeholder"}] :
                             /\ \A k \in 1..Len(items) : (names[k] = "placeholder") <=> (existing = {})
                             /\ gen' = GenReturns(gen,
                                   [k \in 1..Len(items) |->
                                       ImageInfo(items[k],
                                                 IF existing = {} THEN PlaceholderPath
                                                 ELSE GeneratedPath(names[k]))])
          ELSE IF FirstRaise([k \in 1..Len(items) |-> PromptRaises(items[k])]) # "none"
               THEN gen' = GenRaises(gen, FirstRaise([k \in 1..Len(items) |-> PromptRaises(items[k])]))
          ELSE gen' = [gen EXCEPT !.pc = "gathering",
                                  !.tasks = [k \in 1..Len(items) |-> PendingTask(items[k])]]
    /\ UNCHANGED <<apiKey, parseVars, imageVars, itemsVars, pdfVars, devMode, uploadVars>>

\* A return statement of generate_image_for_action: each one reads the title
\* and the description of the item, and so does the handler of lines 285-291.
TaskReturns(task, path) ==
    IF HasTitleAndDescription(task.item)
    THEN [task EXCEPT !.pc = "done", !.image_path = path, !.result = ImageInfo(task.item, path)]
    ELSE [task EXCEPT !.pc = "raised", !.image_path = path]

Finished(k) == [gen EXCEPT !.completed = Append(@, k)]

\* Lines 183-236 of one gathered task.
TaskStart(k) ==
    /\ gen.pc = "gathering"
    /\ k \in 1..Len(gen.tasks)
    /\ gen.tasks[k].pc = "pending"
    /\ IF ~Truthy(apiKey)
       THEN gen' = [Finished(k) EXCEPT !.tasks[k] = TaskReturns(gen.tasks[k], PlaceholderPath)]
       ELSE gen' = [gen EXCEPT !.tasks[k].pc = "posting",
                               !.tasks[k].filename = FreshUuid({gen.tasks[j].filename : j \in 1..Len(gen.tasks)})]
    /\ UNCHANGED <<apiKey, parseVars, imageVars, itemsVars, pdfVars, devMode, uploadVars>>

\* Lines 237-291 of one gathered task, up to the download of a returned url.
TaskRespond(k) ==
    /\ gen.pc = "gathering"
    /\ k \in 1..Len(gen.tasks)
    /\ gen.tasks[k].pc = "posting"
    /\ \E r \in ImageResponses :
         CASE r.kind = "url" ->
                gen' = [gen EXCEPT !.tasks[k].pc = "downloading"]
           [] r.kind = "b64_json" /\ r.written ->
                gen' = [Finished(k) EXCEPT
                          !.tasks[k] = TaskReturns(gen.tasks[k], GeneratedPath(gen.tasks[k].filename))]
           [] OTHER ->
                gen' = [Finished(k) EXCEPT !.tasks[k] = TaskReturns(gen.tasks[k], PlaceholderPath)]
    /\ UNCHANGED <<apiKey, parseVars, imageVars, itemsVars, pdfVars, devMode, uploadVars>>

\* Lines 253-276 and 285-291 of one gathered task.
TaskDownloaded(k) ==
    /\ gen.pc = "gathering"
    /\ k \in 1..Len(gen.tasks)
    /\ gen.tasks[k].pc = "downloading"
    /\ \E fetched, file_written \in BOOLEAN :
         gen' = [Finished(k) EXCEPT
                   !.tasks[k] = TaskReturns(gen.tasks[k],
                                            IF fetched /\ file_written
                                            THEN GeneratedPath(gen.tasks[k].filename)
                                            ELSE PlaceholderPath)]
    /\ UNCHANGED <<apiKey, parseVars, imageVars, itemsVars, pdfVars, devMode, uploadVars>>

\* A variant that takes the results in the order the tasks completed in.
GatheredAsCompleted(tasks, completed) == [k \in 1..Len(tasks) |-> tasks[completed[k]]]

\* asyncio.gather(*image_tasks, return_exceptions=True), line 109: one result
\* for each task, in the order of the tasks.
Gathered(tasks, completed) == [k \in 1..Len(tasks) |-> tasks[k]]

\* The loop of lines 112-118.
SuccessfulResults(results) ==
    LET R[k \in 0..Len(results)] ==
            IF k = 0 THEN <<>>
            ELSE IF results[k].pc = "done" /\ HasKey(results[k].result, "image_path")
                 THEN Append(R[k - 1], results[k].result)
                 ELSE R[k - 1]
    IN R[Len(results)]

\* Lines 109-121: every task is over and generate_images returns.
GenCollect ==
    /\ gen.pc = "gathering"
    /\ \A k \in 1..Len(gen.tasks) : gen.tasks[k].pc \in {"done", "raised"}
    /\ gen' = GenReturns(gen, SuccessfulResults(Gathered(gen.tasks, gen.completed)))
    /\ UNCHANGED <<apiKey, parseVars, imageVars, itemsVars, pdfVars, devMode, uploadVars>>

(***************************************************************************)
(* upload_adime, main.py lines 48-86.                                      *)
(***************************************************************************)
NoUpload == [pc |-> "idle", file |-> [given |-> FALSE, utf8 |-> TRUE, text |-> <<>>],
             text_content |-> PyNone, adime_data |-> PyNone, image_paths |-> <<>>,
             response |-> "none", raised |-> "none"]

\* Lines 56-70: the content is taken from the file or from the form text and
\* parse_adime_text is called on it; with neither, the error is returned.
UploadStart ==
    /\ up.pc = "start"
    /\ pc = "idle"
    /\ IF up.file.given
       THEN IF up.file.utf8
            THEN /\ up' = [up EXCEPT !.pc = "parsing"]
                 /\ pc' = "start"
                 /\ content' = up.file.text
            ELSE /\ up' = [up EXCEPT !.pc = "raised", !.raised = "UnicodeDecodeError"]
                 /\ UNCHANGED <<pc, content>>
       ELSE IF up.text_content.j = "str" /\ up.text_content.s # <<>>
            THEN /\ up' = [up EXCEPT !.pc = "parsing"]
                 /\ pc' = "start"
                 /\ content' = up.text_content.s
            ELSE /\ up' = [up EXCEPT !.pc = "responded", !.response = "error"]
                 /\ UNCHANGED <<pc, content>>
    /\ UNCHANGED <<apiKey, response, requests, json_str, result, raised,
                   imageVars, itemsVars, pdfVars, batchVars>>

\* Lines 70-75: parse_adime_text is over, its document goes to generate_images.
UploadParsed ==
    /\ up.pc = "parsing"
    /\ pc = "done"
    /\ gen.pc = "idle"
    /\ IF raised # "none"
       THEN /\ up' = [up EXCEPT !.pc = "raised", !.raised = raised]
            /\ UNCHANGED gen
       ELSE IF ~IsDict(result)
            THEN /\ up' = [up EXCEPT !.pc = "raised", !.raised = "AttributeError",
                                     !.adime_data = result]
                 /\ UNCHANGED gen
            ELSE /\ up' = [up EXCEPT !.pc = "imaging", !.adime_data = result]
                 /\ gen' = [gen EXCEPT !.pc = "start", !.adime_data = result]
    /\ UNCHANGED <<apiKey, parseVars, imageVars, itemsVars, pdfVars, devMode>>

\* Lines 75-86: generate_images is over, the preview is rendered.
UploadRender ==
    /\ up.pc = "imaging"
    /\ gen.pc \in {"returned", "raised"}
    /\ up' = IF gen.pc = "raised"
             THEN [up EXCEPT !.pc = "raised", !.raised = gen.raised]
             ELSE [up EXCEPT !.pc = "responded", !.response = "report",
                             !.image_paths = gen.image_info]
    /\ UNCHANGED <<apiKey, parseVars, imageVars, itemsVars, pdfVars, batchVars>>

(***************************************************************************)
(* A call of extract_action_items on its own.                              *)
(***************************************************************************)
ExtractCall ==
    /\ itemsPc = "start"
    /\ itemsResult' = extract_action_items(itemsArg)
    /\ itemsPc' = "done"
    /\ UNCHANGED <<apiKey, itemsArg, parseVars, imageVars,
                   pdfVars, batchVars, uploadVars>>

(***************************************************************************)
(* Specifications.                                                         *)
(***************************************************************************)
Seqs(S, n) == UNION {[1..k -> S] : k \in 0..n}

ApiKeys == {"None", "", "sk-key"}

ParseIdle ==
    /\ pc = "idle" /\ content = <<>> /\ response = NoResponse /\ requests = 0
    /\ json_str = NotParsed /\ result = PyNone /\ raised = "none"

ImageIdle ==
    /\ imgPc = "idle" /\ action_item = PyNone /\ filename = "none"
    /\ imgResponse = NoImageResponse /\ imgRequests = 0 /\ downloads = 0
    /\ imgResult = PyNone

ItemsIdle ==
    /\ itemsPc = "idle" /\ itemsArg = <<>> /\ itemsResult = <<>>

PdfIdle == pdf = [r \in Renders |-> NoRender] /\ written = {} /\ disk = {}

BatchIdle == devMode = TRUE /\ gen = NoGen

UploadIdle == up = NoUpload

OthersIdle == PdfIdle /\ BatchIdle /\ UploadIdle

ParseReady(notes) ==
    /\ pc = "start" /\ content \in notes /\ response = NoResponse /\ requests = 0
    /\ json_str = NotParsed /\ result = PyNone /\ raised = "none"

ImageReady ==
    /\ imgPc = "start" /\ action_item \in ActionItems /\ filename = "none"
    /\ imgResponse = NoImageResponse /\ imgRequests = 0 /\ downloads = 0
    /\ imgResult = PyNone

\* The notes of the specification with the remote path.
RemoteNotePieces ==
    { <<"A", ":", " ", "x">>, <<"I", ":", "*", "x">>, <<"d", ":">>, <<"x">> }

RemoteNotes == {Flatten(ps) : ps \in Seqs(RemoteNotePieces, MaxRemoteNote)}

\* One call of parse_adime_text, with or without a key.
Init ==
    apiKey \in ApiKeys /\ ParseReady(RemoteNotes) /\ ImageIdle /\ ItemsIdle /\ OthersIdle

Next == ParseStart \/ ParseRespond

Spec == Init /\ [][Next]_vars

\* One call of parse_adime_text and one of generate_image_for_action, in any
\* interleaving.
InitCalls ==
    apiKey \in ApiKeys /\ ParseReady({<<>>}) /\ ImageReady /\ ItemsIdle /\ OthersIdle

NextCalls == ParseStart \/ ParseRespond \/ ImageStart \/ ImageRespond \/ ImageDownloaded

SpecCalls == InitCalls /\ [][NextCalls]_vars

\* One call of parse_adime_text with no usable key, over every short note.
NoteChars == {"A", "D", "I", "M", "d", ":", " ", "x"}

InitLocal ==
    /\ apiKey \in {"None", ""} /\ ParseReady(Seqs(NoteChars, MaxNote))
    /\ ImageIdle /\ ItemsIdle /\ OthersIdle

NextLocal == ParseStart

SpecLocal == InitLocal /\ [][NextLocal]_vars

\* One call of extract_action_items, over every short text.
LongWord == [k \in 1..(MinParagraph + 1) |-> "w"]

TextPieces ==
    { <<"*">>, <<"u2022">>, <<"1">>, <<".">>, <<" ">>, <<"\n">>, <<"x">>,
      <<"x", " ", "y", " ", "x", " ", "y">>, <<"x", " ", "y", " ", "x", " ", "y", " ", "z">>,
      SubSeq(LongWord, 1, MinParagraph), LongWord }

Texts == {Flatten(ps) : ps \in Seqs(TextPieces, MaxText)}

InitItems ==
    /\ apiKey = "None" /\ ParseIdle /\ ImageIdle
    /\ itemsPc = "start" /\ itemsArg \in Texts /\ itemsResult = <<>>
    /\ OthersIdle

NextItems == ExtractCall

SpecItems == InitItems /\ [][NextItems]_vars

\* One call of generate_pdf, over every short document, up to the name of
\* the PDF.
ImgTag(src) == <<"<", "img", " ", "src", "=", Quote>> \o src \o <<Quote, ">">>

\* Whole elements: three images, a button, a button with a hidden spinner
\* whose style attribute stands on a line of its own, a hidden element, a
\* hidden element with a child, an empty editor container and a span.
HtmlPieces ==
    LET HiddenStyle == <<"style", "=", Quote, "display:", "none", Quote>>
        SpanX == <<"<", "span", ">", "x", "<", "/", "span", ">">>
    IN
    { ImgTag(<<"/", "a.png">>),
      ImgTag(<<"https:", "/", "/", "c", "/", "a.png">>),
      ImgTag(<<"/", "/", "c", "/", "a.png">>),
      <<"<", "button", ">", "x", "<", "/", "button", ">">>,
      <<"<", "button", ">", "x", "<", "span", "\n">> \o HiddenStyle
          \o <<">", "x", "<", "/", "span", ">", "<", "/", "button", ">">>,
      <<"<", "div", " ">> \o HiddenStyle \o <<">", "x", "<", "/", "div", ">">>,
      <<"<", "div", " ">> \o HiddenStyle \o <<">">> \o SpanX \o <<"x", "<", "/", "div", ">">>,
      <<"<", "div", " ", "class", "=", Quote, "editor", Quote, ">", "\n",
        "<", "p", ">", "<", "br", ">", "<", "/", "p", ">", "\n", "<", "/", "div", ">">>,
      SpanX }

HtmlDocs == {Flatten(ps) : ps \in Seqs(HtmlPieces, MaxHtml)}

RenderReady(docs) == [NoRender EXCEPT !.pc = "start", !.html = docs]

InitResolve ==
    /\ apiKey = "None" /\ ParseIdle /\ ImageIdle /\ ItemsIdle /\ BatchIdle /\ UploadIdle
    /\ \E html \in HtmlDocs :
         pdf = [r \in Renders |-> IF r = 1 THEN RenderReady(html) ELSE NoRender]
    /\ written = {}
    /\ disk \in SUBSET {<<"a.png">>}

NextResolve == \E r \in Renders : PdfPrepare(r)

SpecResolve == InitResolve /\ [][NextResolve]_vars

\* Two calls of create_pdf, in any interleaving.
PdfDocs == {ImgTag(<<"/", "a.png">>), ImgTag(<<"/", "a.png", "/", "b.png">>)}

InitPdf ==
    /\ apiKey = "None" /\ ParseIdle /\ ImageIdle /\ ItemsIdle /\ BatchIdle /\ UploadIdle
    /\ \E htmls \in [Renders -> PdfDocs] : pdf = [r \in Renders |-> RenderReady(htmls[r])]
    /\ written = {}
    /\ disk \in SUBSET {<<"a.png">>}

NextPdf ==
    \E r \in Renders :
        \/ PdfPrepare(r)
        \/ PdfWriteDebug(r)
        \/ PdfWriteTemp(r)
        \/ PdfRender(r)
        \/ CreatePdfRespond(r)

SpecPdf == InitPdf /\ [][NextPdf]_vars

\* One call of generate_images, over every short list of action items, in
\* the nested and in the flat shape of the document.
Untitled == PyDict([k \in {"description"} |-> PyStr(<<"rest">>)])

NestedDocument(items) ==
    PyDict([k \in {"intervention"} |->
              PyDict([f \in {"summary", "action_items"} |->
                        IF f = "summary" THEN PyStr(<<"x">>) ELSE PyList(items)])])

FlatDocument(items) ==
    PyDict([k \in {"intervention", "action_items"} |->
              IF k = "intervention" THEN PyStr(<<"x">>) ELSE PyList(items)])

\* Up to ImageLimit items of any kind, and more items after them.
ItemLists ==
    {head \o tail : head \in Seqs(ActionItems \cup {Untitled}, ImageLimit),
                    tail \in Seqs({PyDict([k \in {"title", "description"} |-> PyStr(<<"sleep">>)])},
                                  MaxItems - ImageLimit)}

ImageDocuments ==
    {NestedDocument(items) : items \in ItemLists}
    \cup {FlatDocument(items) : items \in Seqs(ActionItems, ImageLimit)}

InitImages ==
    /\ apiKey \in ApiKeys /\ ParseIdle /\ ImageIdle /\ ItemsIdle /\ PdfIdle /\ UploadIdle
    /\ devMode \in BOOLEAN
    /\ \E doc \in ImageDocuments : gen = [NoGen EXCEPT !.pc = "start", !.adime_data = doc]

NextTasks ==
    \E k \in 1..ImageLimit : TaskStart(k) \/ TaskRespond(k) \/ TaskDownloaded(k)

NextImages == GenStart \/ NextTasks \/ GenCollect

SpecImages == InitImages /\ [][NextImages]_vars

\* One call of upload_adime, from the form to the preview.
InitUpload ==
    /\ apiKey \in ApiKeys /\ ParseIdle /\ ImageIdle /\ ItemsIdle /\ PdfIdle
    /\ devMode \in BOOLEAN
    /\ gen = NoGen
    /\ \E file \in { [given |-> FALSE, utf8 |-> TRUE, text |-> <<>>],
                      [given |-> TRUE, utf8 |-> FALSE, text |-> <<>>],
                      [given |-> TRUE, utf8 |-> TRUE, text |-> <<"I", ":", "*", "x">>] },
          text \in {PyNone, PyStr(<<>>), PyStr(<<"x">>)} :
         up = [NoUpload EXCEPT !.pc = "start", !.file = file, !.text_content = text]

NextUpload ==
    \/ UploadStart
    \/ ParseStart
    \/ ParseRespond
    \/ UploadParsed
    \/ GenStart
    \/ NextTasks
    \/ GenCollect
    \/ UploadRender

SpecUpload == InitUpload /\ [][NextUpload]_vars

(***************************************************************************)
(* The claims about the remote path, under Spec and SpecCalls.             *)
(***************************************************************************)
SectionNames == {"assessment", "diagnosis", "intervention", "monitoring"}

\* C1: parse_adime_text never raises to its caller: whatever the note and
\* whatever the remote request came back with, a finished call has returned
\* a value and raised nothing.
C1_NeverRaises == pc = "done" => raised = "none"

C1_Witness ==
    /\ pc = "done" /\ requests = 1 /\ response.kind = "empty_choices"
    /\ raised = "none" /\ result = RuleBased(content)

HasFourSections(doc) ==
    /\ doc.j = "obj"
    /\ \A k \in SectionNames : k \in DOMAIN doc.m /\ doc.m[k].j # "null"

\* C2: the document parse_adime_text returns has the four sections
\* assessment, diagnosis, intervention and monitoring, each present and not
\* null, for every note and every remote outcome.
C2_FourSections == (pc = "done" /\ raised = "none") => HasFourSections(result)

\* The reply text holds a JSON object with the four top-level keys.
UsableReply(text) ==
    LET json_match == JsonMatch(text)
        loaded == JsonLoads(IF json_match.found THEN json_match.group ELSE text)
    IN /\ loaded.ok
       /\ loaded.val.j = "obj"
       /\ SectionNames \subseteq DOMAIN loaded.val.m

\* C3: when the reply text is not a JSON object with the required top-level
\* keys (no JSON, invalid JSON, or keys missing), parse_adime_text returns
\* what the rule-based extractor gives for the same note, never a partial or
\* placeholder document.
C3_BadReplyFallsBack ==
    (pc = "done" /\ response.kind = "content" /\ ~UsableReply(response.content))
        => (raised = "none" /\ result = RuleBased(content))

\* C4: when the remote request fails (network error, timeout, or a response
\* that is not 2xx), parse_adime_text returns what the rule-based extractor
\* gives for the same note.
C4_FailedRequestFallsBack ==
    (pc = "done" /\ (response.kind = "transport_error"
                        \/ (response.kind # "none" /\ response.status \notin 200..299)))
        => (raised = "none" /\ result = RuleBased(content))

\* C5: with no credential configured (OPENAI_API_KEY unset or empty),
\* parse_adime_text never issues a remote request and returns the rule-based
\* extraction of the note.
C5_NoKeyNoRequest ==
    apiKey \in {"None", ""} =>
        /\ requests = 0
        /\ pc # "awaiting"
        /\ response = NoResponse
        /\ pc = "done" => (raised = "none" /\ result = RuleBased(content))

C5_Witness ==
    /\ pc = "done" /\ apiKey = "" /\ requests = 0
    /\ result.m["action_items"].l # <<>>

\* C6: no retry.  One call of parse_adime_text issues at most one remote
\* extraction request and one call of generate_image_for_action at most one
\* image-generation request; after a failed request the call ends with its
\* fallback and no second request.
C6_NoRetry ==
    /\ requests <= 1
    /\ imgRequests <= 1
    /\ pc = "awaiting" => requests = 1
    /\ imgPc \in {"posting", "downloading"} => imgRequests = 1

C6_Witness ==
    /\ pc = "done" /\ response.kind = "transport_error" /\ requests = 1
    /\ result = RuleBased(content)
    /\ imgPc = "done" /\ imgResponse.kind = "transport_error" /\ imgRequests = 1
    /\ imgResult = ImageInfo(action_item, PlaceholderPath)

\* The outermost balanced brace span: from the first "{" to the "}" that
\* brings the brace depth back to zero.
BalancedSpan(s) ==
    LET opens == {k \in 1..Len(s) : s[k] = "{"}
        Depth(o, c) == Cardinality({k \in o..c : s[k] = "{"})
                          - Cardinality({k \in o..c : s[k] = "}"})
    IN IF opens = {} \/ ~\E c \in Least(opens)..Len(s) : Depth(Least(opens), c) = 0
       THEN [found |-> FALSE, group |-> <<>>]
       ELSE [found |-> TRUE,
             group |-> SubSeq(s, Least(opens),
                              Least({c \in Least(opens)..Len(s) : Depth(Least(opens), c) = 0}))]

\* C7: the text parse_with_openai hands to the JSON parser is the outermost
\* balanced brace span of the reply (nothing after the matching "}"), and the
\* whole reply when there is no such span.
C7_BalancedSpanParsed ==
    (pc = "done" /\ response.kind = "content") =>
        json_str = [set |-> TRUE,
                    s |-> IF BalancedSpan(response.content).found
                          THEN BalancedSpan(response.content).group
                          ELSE response.content]

(***************************************************************************)
(* The claim about the rule-based sections, under SpecLocal.               *)
(***************************************************************************)
IsSeparator(c) == c \in {":", " ", "\n"}

SectionOf(doc, kw) ==
    CASE kw = "A" -> doc.m["assessment"].s
      [] kw = "D" -> doc.m["diagnosis"].s
      [] kw = "I" -> doc.m["intervention"].s
      [] OTHER -> doc.m["monitoring"].s

\* The text from position from up to the first position at or after it that
\* satisfies stop, trimmed, the separators at its start dropped.
BodyUpTo(s, from, stops) ==
    LET body == {p \in from..Len(s) : \E q \in from..p : ~IsSeparator(s[q])}
        first == IF body = {} THEN Len(s) + 1 ELSE Least(body)
        ends == {p \in first..Len(s) : p \in stops}
        last == IF ends = {} THEN Len(s) ELSE Least(ends) - 1
    IN Strip(SubSeq(s, first, last))

\* The claim as stated: the anchor is the first occurrence of the keyword, the
\* section runs to the next occurrence of any keyword.
StatedSection(s, kw) ==
    LET anchors == {p \in 1..Len(s) : Upper(s[p]) = kw}
    IN IF anchors = {} THEN <<>>
       ELSE BodyUpTo(s, Least(anchors) + 1,
                     {p \in 1..Len(s) : Upper(s[p]) \in Keywords})

\* C8 as stated: with the remote path disabled, each section is the text
\* between its keyword anchor and the next anchor or the end of the note,
\* trimmed; a section whose anchor is absent is empty.
C8_SectionBetweenAnchors ==
    (pc = "done" /\ apiKey \in {"None", ""}) =>
        \A kw \in Keywords : SectionOf(result, kw) = StatedSection(content, kw)

\* As the code has it: the anchor is the first occurrence of the keyword that
\* a ":" or a whitespace character follows, the section runs to the next
\* occurrence of one of the other three keywords.
AnchoredSection(s, kw) ==
    LET anchors == {p \in 1..(Len(s) - 1) : Upper(s[p]) = kw /\ IsSeparator(s[p + 1])}
    IN IF anchors = {} THEN <<>>
       ELSE BodyUpTo(s, Least(anchors) + 1,
                     {p \in 1..Len(s) : Upper(s[p]) \in Keywords /\ Upper(s[p]) # kw})

\* C8, amended: with the remote path disabled, each section is the text that
\* follows the first occurrence of its keyword (in any casing) that is itself
\* followed by ":" or whitespace, those separators dropped, up to the next
\* occurrence of one of the other three keywords or the end of the note,
\* trimmed; a section with no such occurrence is empty.
C8_SectionAfterAnchor ==
    (pc = "done" /\ apiKey \in {"None", ""}) =>
        \A kw \in Keywords : SectionOf(result, kw) = AnchoredSection(content, kw)

C8_Witness ==
    /\ pc = "done" /\ apiKey = "None"
    /\ content = <<"d", ":", "x", "A", "x">>
    /\ SectionOf(result, "D") = <<"x">>
    /\ SectionOf(result, "A") = <<>>
    /\ SectionOf(result, "I") = <<>>

(***************************************************************************)
(* The claims about extract_action_items, under SpecItems.                 *)
(***************************************************************************)
\* A bullet marker starts at p: "*", the bullet character, or a run of digits
\* with a "." after it.
MarkerStartsAt(s, p) ==
    \/ s[p] \in {"*", "u2022"}
    \/ /\ IsDigit(s[p])
       /\ p = 1 \/ ~IsDigit(s[p - 1])
       /\ \E q \in (p + 1)..Len(s) : s[q] = "." /\ \A r \in p..(q - 1) : IsDigit(s[r])

MarkerStarts(s) == {p \in 1..Len(s) : MarkerStartsAt(s, p)}

MarkerLast(s, p) ==
    IF IsDigit(s[p])
    THEN CHOOSE q \in (p + 1)..Len(s) : s[q] = "." /\ \A r \in p..(q - 1) : IsDigit(s[r])
    ELSE p

\* The trimmed text between the marker at p and the next marker or the end.
SegmentAfter(s, p) ==
    Strip(SubSeq(s, MarkerLast(s, p) + 1,
                 Least({q \in MarkerStarts(s) : q > p} \cup {Len(s) + 1}) - 1))

FilledMarkers(s) == {p \in MarkerStarts(s) : SegmentAfter(s, p) # <<>>}

NthOf(S, n) == CHOOSE p \in S : Cardinality({q \in S : q < p}) = n - 1

ItemOfSegment(seg) ==
    PyDict([k \in {"title", "description", "visualization_prompt"} |->
              CASE k = "title" ->
                     PyStr(IF Len(Split(seg)) > 4
                           THEN Join(SubSeq(Split(seg), 1, 4)) \o <<".", ".", ".">>
                           ELSE Join(Split(seg)))
                [] k = "description" -> PyStr(seg)
                [] OTHER -> PyStr(InstructionPhrase \o seg)])

ItemsOfSegments(s) ==
    [n \in 1..Cardinality(FilledMarkers(s)) |->
        ItemOfSegment(SegmentAfter(s, NthOf(FilledMarkers(s), n)))]

\* C9: extract_action_items splits the text at every bullet marker; each
\* non-empty trimmed segment between a marker and the next marker or the end
\* gives one action item, in order, with the segment as description, its
\* first four words (and "..." exactly when it has more) as title, and the
\* instruction phrase followed by the segment as visualization_prompt.
C9_ItemPerSegment ==
    (itemsPc = "done" /\ FilledMarkers(itemsArg) # {}) =>
        itemsResult = ItemsOfSegments(itemsArg)

C9_Witness ==
    /\ itemsPc = "done"
    /\ Len(itemsResult) = 2
    /\ Len(Split(itemsResult[1].m["description"].s)) = 5
    /\ itemsResult[1].m["title"].s = <<"x", " ", "y", " ", "x", " ", "y", ".", ".", ".">>
    /\ itemsResult[2].m["title"].s = <<"x">>

\* C10: the paragraph fallback is used exactly when the text has no bullet
\* marker: then the result is one item per blank-line-separated paragraph
\* whose trimmed length exceeds 20, in order (the empty list when there is
\* none); with a marker in the text the result is the items of the bullet
\* segments.
C10_FallbackIffNoMarker ==
    itemsPc = "done" =>
        IF MarkerStarts(itemsArg) = {}
        THEN itemsResult = ParagraphItems(SplitParagraphs(itemsArg))
        ELSE itemsResult = ItemsOfSegments(itemsArg)

(***************************************************************************)
(* The claims about the asset resolver, under SpecResolve.                 *)
(***************************************************************************)
\* The src values of the <img src="..."> references of a document, in order.
ImgRefsFrom(s) ==
    LET at == {i \in 1..Len(s) : HasAt(s, i, <<"<", "img", " ", "src", "=", Quote>>)}
    IN [n \in 1..Cardinality(at) |->
          SubSeq(s, NthOf(at, n) + 6, FirstAt(s, NthOf(at, n) + 6, {Quote}) - 1)]

IsRootRelative(src) == src # <<>> /\ src[1] = "/"

IsRemoteUrl(src) == src # <<>> /\ src[1] \in {"http:", "https:"}

\* The local-file reference to the path src under the working directory.
AnchoredAtCwd(src) == <<"file:", "/", "/">> \o Cwd \o src

\* C11: after the asset-resolution step of generate_pdf, every <img>
\* reference whose src begins with "/" is a local-file reference anchored at
\* the working directory (the working directory followed by the src), and
\* every <img> reference whose src is a remote http/https URL is unchanged.
C11_ImagePathsResolved ==
    pdf[1].pc \notin {"idle", "start"} =>
        LET before == ImgRefsFrom(pdf[1].html)
            after == ImgRefsFrom(pdf[1].fixed_html)
        IN /\ Len(after) = Len(before)
           /\ \A n \in 1..Len(before) :
                /\ IsRootRelative(before[n]) => after[n] = AnchoredAtCwd(before[n])
                /\ IsRemoteUrl(before[n]) => after[n] = before[n]

\* C12: the transformation of lines 31-58 is idempotent: for a document
\* with a root-relative image path, applying it to its own output gives that
\* output again.
C12_ResolveIdempotent ==
    (/\ pdf[1].pc \notin {"idle", "start"}
     /\ \E n \in 1..Len(ImgRefsFrom(pdf[1].html)) : IsRootRelative(ImgRefsFrom(pdf[1].html)[n]))
        => PreparedHtml(pdf[1].html_content) = pdf[1].html_content

HasButton(s) == \E i \in 1..Len(s) : HasAt(s, i, <<"<", "button">>)

HasHiddenElement(s) ==
    \E i \in 1..Len(s) : HasAt(s, i, <<"style", "=", Quote, "display:", "none">>)

HasEmptyEditor(s) ==
    \E i \in 1..Len(s) :
        /\ HasAt(s, i, <<"<", "div", " ", "class", "=", Quote, "editor", Quote, ">">>)
        /\ LET p == SkipSpace(s, i + 9)
           IN /\ HasAt(s, p, <<"<", "p", ">", "<", "br", ">", "<", "/", "p", ">">>)
              /\ HasAt(s, SkipSpace(s, p + 10), <<"<", "/", "div", ">">>)

Count(s, pat) == Cardinality({i \in 1..Len(s) : HasAt(s, i, pat)})

\* C13: the HTML handed to the renderer has no button element, no element
\* styled display:none and no empty editor container; each was removed whole,
\* content and closing tag included (so a document whose <div> tags were
\* balanced stays balanced), and a document with none of them is unchanged.
C13_Sanitized ==
    pdf[1].pc \notin {"idle", "start"} =>
        /\ ~HasButton(pdf[1].html_content)
        /\ ~HasHiddenElement(pdf[1].html_content)
        /\ ~HasEmptyEditor(pdf[1].html_content)
        /\ Count(pdf[1].html, <<"<", "div">>) = Count(pdf[1].html, <<"<", "/", "div", ">">>)
             => Count(pdf[1].html_content, <<"<", "div">>)
                  = Count(pdf[1].html_content, <<"<", "/", "div", ">">>)
        /\ (~HasButton(pdf[1].html) /\ ~HasHiddenElement(pdf[1].html)
               /\ ~HasEmptyEditor(pdf[1].html))
             => pdf[1].html_content = pdf[1].fixed_html

(***************************************************************************)
(* The claims about the calls of generate_pdf, under SpecPdf.              *)
(***************************************************************************)
\* C14: generate_pdf never raises to its caller; when rendering fails it
\* returns "", every other result being the non-empty path of the PDF it
\* wrote; and create_pdf answers "" with an error and serves no file.
C14_PdfNeverRaises ==
    \A r \in Renders :
        /\ pdf[r].pc # "raised"
        /\ pdf[r].raised = "none"
        /\ pdf[r].response.kind # "exception"
        /\ (pdf[r].pc = "returned" /\ pdf[r].pdf_path # NoPath)
             => [path |-> pdf[r].pdf_path, by |-> r] \in written
        /\ (pdf[r].pc = "responded" /\ pdf[r].pdf_path = NoPath)
             => pdf[r].response.kind = "error"

\* C15: in every interleaving of the calls of generate_pdf, no file is
\* written by two calls: the PDF, the debug HTML file and the temporary HTML
\* file of a call have paths no other call writes to, started or finished.
C15_NoSharedPath ==
    \A w1, w2 \in written : w1.path = w2.path => w1.by = w2.by

C15_Witness ==
    /\ \A r \in Renders :
          /\ pdf[r].pc = "returned"
          /\ {[path |-> PdfPath(pdf[r].filename), by |-> r],
              [path |-> DebugPath(pdf[r].debug), by |-> r],
              [path |-> TempPath(pdf[r].temp), by |-> r]} \subseteq written
    /\ Cardinality(written) = 6

(***************************************************************************)
(* The claims about generate_images, under SpecImages.                     *)
(***************************************************************************)
\* The action items of the document, truncated to three.
FirstThreeItems == Take(FoundActionItems(gen.adime_data).l, 3)

\* The entry has the title and the description of the item.
DerivedFrom(entry, item) ==
    /\ HasTitleAndDescription(item)
    /\ entry.m["title"] = item.m["title"]
    /\ entry.m["description"] = item.m["description"]

\* C16: in development and in real mode, whatever order the image tasks
\* complete in, generate_images returns at most 3 entries, each derived from
\* one of the first 3 action items, in the relative order of those items.
C16_AtMostThreeInOrder ==
    gen.pc = "returned" =>
        /\ Len(gen.image_info) <= 3
        /\ \E f \in [1..Len(gen.image_info) -> 1..Len(FirstThreeItems)] :
             /\ \A m, n \in 1..Len(gen.image_info) : m < n => f[m] < f[n]
             /\ \A n \in 1..Len(gen.image_info) :
                  DerivedFrom(gen.image_info[n], FirstThreeItems[f[n]])

C16_Witness ==
    /\ gen.pc = "returned" /\ ~devMode
    /\ Len(FoundActionItems(gen.adime_data).l) = 4
    /\ gen.completed = <<3, 2, 1>>
    /\ Len(gen.image_info) = 3
    /\ gen.image_info[1].m["title"] = PyStr(<<"walk">>)
    /\ gen.image_info[2].m["title"] = PyStr(<<"water">>)
    /\ gen.image_info[3].m["image_path"] # PyStr(PlaceholderPath)

\* C17: the N-th entry generate_images returns has the title and the
\* description of the N-th action item of the document, also when image
\* tasks have failed.
C17_NthEntryIsNthItem ==
    gen.pc = "returned" =>
        \A n \in 1..Len(gen.image_info) :
            /\ n <= Len(FirstThreeItems)
            /\ DerivedFrom(gen.image_info[n], FirstThreeItems[n])

\* C18: the failure of an image's generation fails neither generate_images
\* nor the other items: once the tasks are gathered generate_images returns,
\* with one entry for each of them; the entry of an item whose generation
\* failed has its title, its description and the placeholder path, the entry
\* of an item whose image was generated has the path of that image.
C18_FailedImageIsPlaceholder ==
    /\ gen.pc = "raised" => gen.tasks = <<>>
    /\ (gen.pc = "returned" /\ gen.tasks # <<>>) =>
         /\ Len(gen.image_info) = Len(gen.tasks)
         /\ \A k \in 1..Len(gen.tasks) :
              /\ gen.tasks[k].image_path \in {PlaceholderPath, GeneratedPath(gen.tasks[k].filename)}
              /\ HasTitleAndDescription(FirstThreeItems[k])
              /\ gen.image_info[k] = ImageInfo(FirstThreeItems[k], gen.tasks[k].image_path)

(***************************************************************************)
(* The claim about the shape of the document, under Spec.                  *)
(***************************************************************************)
SchemaFields(section) ==
    CASE section = "assessment" -> {"summary", "weight", "labs", "current_intake"}
      [] section = "diagnosis" -> {"summary", "problems"}
      [] section = "intervention" -> {"summary", "action_items"}
      [] OTHER -> {"follow_up", "metrics", "timeline"}

\* C19: the document parse_adime_text returns has, on every path, the four
\* sections as records with every field of the data model present (empty or
\* null when the note does not give it).
C19_SchemaShape ==
    (pc = "done" /\ raised = "none") =>
        /\ IsDict(result)
        /\ \A section \in SectionNames :
             /\ HasKey(result, section)
             /\ IsDict(result.m[section])
             /\ SchemaFields(section) \subseteq DOMAIN result.m[section].m

(***************************************************************************)
(* The claim about the upload flow, under SpecUpload.                      *)
(***************************************************************************)
NoContentSupplied ==
    /\ ~up.file.given
    /\ up.text_content.j # "str" \/ up.text_content.s = <<>>

\* C20: in upload_adime the only error the user sees is the absence of
\* input: with neither file nor text the error is returned and neither
\* parse_adime_text nor generate_images is called; with content, nothing is
\* raised, and generate_images returns a list for every document
\* parse_adime_text returns.
C20_OnlyAbsenceIsAnError ==
    /\ NoContentSupplied =>
         /\ pc = "idle" /\ requests = 0 /\ gen.pc = "idle"
         /\ up.pc \in {"start", "responded"}
         /\ up.pc = "responded" => up.response = "error"
    /\ ~NoContentSupplied =>
         /\ up.response # "error"
         /\ up.pc # "raised"
         /\ gen.pc # "raised"

====
